---------------------------- MODULE Spec2Model ----------------------------
(***************************************************************************)
(* Verification model of LMS_bypassV3.                                     *)
(*                                                                         *)
(*   - watchdog.pyw: class Watchdog.  The main thread runs Watchdog.run    *)
(*     (the monitor loop); the `keyboard` library runs the hotkey          *)
(*     callbacks hotkey_restart and stop_watchdog, one at a time, on its   *)
(*     own thread.  Both threads read and write self.process and           *)
(*     self.running without any lock.                                      *)
(*   - the application (class App): see the second half of the module.     *)
(***************************************************************************)
EXTENDS Integers, Sequences, FiniteSets, TLC

(***************************************************************************)
(* Bounds of the watchdog model.                                           *)
(***************************************************************************)
\* how many times a monitored child may exit on its own (crash)
MaxCrashes == 1
\* how many hotkey presses the operator makes
MaxPresses == 2

VARIABLES
    \* ---- watchdog.pyw ----
    process,      \* self.process: pid of the Popen object referenced, 0 = None
    running,      \* self.running
    alive,        \* pids of the child processes that are alive (OS state)
    nextPid,      \* pid the next Popen will get
    wpc,          \* position of each watchdog thread in its code
    wnew,         \* per thread: the Popen object created and not yet stored
    hotkeys,      \* keyboard library: key combination -> registered callback
    key,          \* key combination whose callback the keyboard thread runs
    crashes,      \* number of own exits so far
    presses,      \* number of hotkey presses so far
    termSent,     \* alive children terminate() was issued on
    stopReturned, \* stop_watchdog has returned at least once
    \* ---- class App (unnamed/part_001 and LMS_bypass.pyw) ----
    build,        \* which of the two builds of App runs
    text_lock,    \* self.text_lock: the thread holding it, or NoThread
    image_lock,   \* self.image_lock
    api_lock,     \* self.api_lock (part_001 only)
    logged_text,      \* self.logged_text
    logged_text_set,  \* self.logged_text_set
    captured_images,  \* self.captured_images
    screenshot_counter, \* self.screenshot_counter
    api_index,    \* self.api_index
    grants,       \* clients handed out by _get_next_client, in order
    apc,          \* position of each App thread in its code
    loc,          \* local variables of each App thread
    workq,        \* self.executor: the pool's queue of submitted tasks
    fut,          \* per thread: the future its _call_api waits on (LMS_bypass)
    piqDone,      \* results of the futures of process_image_only_query
    msg_queue,    \* MessageManager.msg_queue
    overlays,     \* MessageManager: texts of the overlay windows on screen
    mpc,          \* position of the MessageManager thread in its code
    ops           \* number of operations invoked so far

wvars == <<process, running, alive, nextPid, wpc, wnew, hotkeys, key,
           crashes, presses, termSent, stopReturned>>

avars == <<build, text_lock, image_lock, api_lock, logged_text, logged_text_set,
           captured_images, screenshot_counter, api_index, grants, apc, loc,
           workq, fut, piqDone, msg_queue, overlays, mpc, ops>>

vars == <<wvars, avars>>

--------------------------------------------------------------------------
(***************************************************************************)
(* watchdog.pyw                                                            *)
(***************************************************************************)
WThreads == {"main", "kb"}

Keys == {"ctrl+shift+backspace", "ctrl+shift+k", "ctrl+shift+q"}

NoHotkeys == [k \in Keys |-> "none"]

\* Popen.poll(): None while the child is alive
PollIsNone(p) == p \in alive

\* Watchdog.__init__: process = None, running = True, start_process()
WInit ==
    /\ process = 1
    /\ running = TRUE
    /\ alive = {1}
    /\ nextPid = 2
    /\ wpc = [t \in WThreads |-> IF t = "main" THEN "reg_restart" ELSE "idle"]
    /\ wnew = [t \in WThreads |-> 0]
    /\ hotkeys = NoHotkeys
    /\ key = "none"
    /\ crashes = 0
    /\ presses = 0
    /\ termSent = {}
    /\ stopReturned = FALSE

\* the monitored child exits: on its own (a crash), or after terminate()
ChildExit ==
    \E c \in alive :
        /\ \/ c \in termSent /\ crashes' = crashes
           \/ c \notin termSent /\ crashes < MaxCrashes /\ crashes' = crashes + 1
        /\ alive' = alive \ {c}
        /\ termSent' = termSent \ {c}
        /\ UNCHANGED <<avars, process, running, nextPid, wpc, wnew, hotkeys, key,
                       presses, stopReturned>>

\* start_process, first half: subprocess.Popen(...) creates the child
Popen(t, next) ==
    /\ alive' = alive \cup {nextPid}
    /\ wnew' = [wnew EXCEPT ![t] = nextPid]
    /\ nextPid' = nextPid + 1
    /\ wpc' = [wpc EXCEPT ![t] = next]
    /\ UNCHANGED <<avars, process, running, hotkeys, key, crashes, presses,
                   termSent, stopReturned>>

\* start_process, second half: self.process = <the Popen object>
StoreProcess(t, next) ==
    /\ process' = wnew[t]
    /\ wpc' = [wpc EXCEPT ![t] = next]
    /\ UNCHANGED <<avars, wnew, running, alive, nextPid, hotkeys, key, crashes, presses,
                   termSent, stopReturned>>

\* `if self.process and self.process.poll() is None:` of restart_process and
\* stop_watchdog
PollBranch(t, ifAlive, ifNot) ==
    /\ wpc' = [wpc EXCEPT ![t] =
                 IF process # 0 /\ PollIsNone(process) THEN ifAlive ELSE ifNot]
    /\ UNCHANGED <<avars, process, running, alive, nextPid, wnew, hotkeys, key,
                   crashes, presses, termSent, stopReturned>>

\* self.process.terminate(): asks the child to exit; it exits later (ChildExit).
\* On a child that has already exited, terminate() does nothing.
Terminate(t, next) ==
    /\ termSent' = termSent \cup ({process} \cap alive)
    /\ wpc' = [wpc EXCEPT ![t] = next]
    /\ UNCHANGED <<avars, process, running, alive, nextPid, wnew, hotkeys, key,
                   crashes, presses, stopReturned>>

\* self.process.wait(timeout=5): returns once the child has exited, raises
\* TimeoutExpired when it is still alive after 5 seconds
Wait(t, ifExited, ifTimeout) ==
    /\ wpc' = [wpc EXCEPT ![t] = IF PollIsNone(process) THEN ifTimeout ELSE ifExited]
    /\ UNCHANGED <<avars, process, running, alive, nextPid, wnew, hotkeys, key,
                   crashes, presses, termSent, stopReturned>>

\* self.process.kill()
Kill(t, next) ==
    /\ alive' = alive \ {process}
    /\ termSent' = termSent \ {process}
    /\ wpc' = [wpc EXCEPT ![t] = next]
    /\ UNCHANGED <<avars, process, running, nextPid, wnew, hotkeys, key,
                   crashes, presses, stopReturned>>


WUnchangedByPc ==
    UNCHANGED <<avars, process, running, alive, nextPid, wnew, hotkeys,
                key, crashes, presses, termSent, stopReturned>>

\* ---- Watchdog.run (main thread) ----

\* keyboard.add_hotkey("ctrl+shift+backspace", self.hotkey_restart)
run_add_hotkey_restart ==
    /\ wpc["main"] = "reg_restart"
    /\ hotkeys' = [hotkeys EXCEPT !["ctrl+shift+backspace"] = "hotkey_restart"]
    /\ wpc' = [wpc EXCEPT !["main"] = "reg_stop"]
    /\ UNCHANGED <<avars, process, running, alive, nextPid, wnew, key, crashes,
                   presses, termSent, stopReturned>>

\* keyboard.add_hotkey("ctrl+shift+k", self.stop_watchdog)
StopHotkey == "ctrl+shift+k"

run_add_hotkey_stop ==
    /\ wpc["main"] = "reg_stop"
    /\ hotkeys' = [hotkeys EXCEPT ![StopHotkey] = "stop_watchdog"]
    /\ wpc' = [wpc EXCEPT !["main"] = "loop"]
    /\ UNCHANGED <<avars, process, running, alive, nextPid, wnew, key, crashes,
                   presses, termSent, stopReturned>>

\* `while self.running:`
run_while ==
    /\ wpc["main"] = "loop"
    /\ wpc' = [wpc EXCEPT !["main"] = IF running THEN "poll" ELSE "exit"]
    /\ WUnchangedByPc

\* `if self.process.poll() is not None` (left operand of the `and`)
run_poll ==
    /\ wpc["main"] = "poll"
    /\ wpc' = [wpc EXCEPT !["main"] = IF ~PollIsNone(process) THEN "chk" ELSE "sleep"]
    /\ WUnchangedByPc

\* run_check_running with the flag inverted (`and not self.running`)
run_check_running_inverted ==
    /\ wpc["main"] = "chk"
    /\ wpc' = [wpc EXCEPT !["main"] = IF running THEN "sleep" ELSE "m_popen"]
    /\ WUnchangedByPc

\* `... and self.running:` (right operand, read after poll() returned)
run_check_running ==
    /\ wpc["main"] = "chk"
    /\ wpc' = [wpc EXCEPT !["main"] = IF running THEN "m_popen" ELSE "sleep"]
    /\ WUnchangedByPc

\* self.start_process() of the monitor loop
run_start_popen == wpc["main"] = "m_popen" /\ Popen("main", "m_store")

run_start_store == wpc["main"] = "m_store" /\ StoreProcess("main", "sleep")

\* time.sleep(1)
run_sleep ==
    /\ wpc["main"] = "sleep"
    /\ wpc' = [wpc EXCEPT !["main"] = "loop"]
    /\ wnew' = [wnew EXCEPT !["main"] = 0]
    /\ UNCHANGED <<avars, process, running, alive, nextPid, hotkeys, key, crashes,
                   presses, termSent, stopReturned>>

\* `except KeyboardInterrupt: self.stop_watchdog()`: the interrupt reaches the
\* main thread anywhere inside the try block
run_KeyboardInterrupt ==
    /\ wpc["main"] \in {"loop", "poll", "chk", "m_popen", "m_store", "sleep"}
    /\ wpc' = [wpc EXCEPT !["main"] = "s_running"]
    /\ wnew' = [wnew EXCEPT !["main"] = 0]
    /\ UNCHANGED <<avars, process, running, alive, nextPid, hotkeys, key, crashes,
                   presses, termSent, stopReturned>>

\* ---- the keyboard thread ----

\* the watchdog process lives until the main thread leaves run(); the
\* keyboard library's threads are daemon threads and end with it
WatchdogLive == wpc["main"] # "exit"

\* the operator presses a key combination; the library invokes the callback
\* registered for it, if any
KeyPress ==
    \E k \in Keys :
        /\ WatchdogLive
        /\ wpc["kb"] = "idle"
        /\ presses < MaxPresses
        /\ presses' = presses + 1
        /\ key' = IF hotkeys[k] = "none" THEN "none" ELSE k
        /\ wpc' = [wpc EXCEPT !["kb"] =
                     CASE hotkeys[k] = "hotkey_restart" -> "r_poll"
                       [] hotkeys[k] = "stop_watchdog"  -> "s_running"
                       [] OTHER                         -> "idle"]
        /\ UNCHANGED <<avars, process, running, alive, nextPid, wnew, hotkeys, crashes,
                       termSent, stopReturned>>

\* ---- Watchdog.restart_process (via hotkey_restart, keyboard thread) ----
restart_poll  == WatchdogLive /\ wpc["kb"] = "r_poll" /\ PollBranch("kb", "r_term", "r_popen")

restart_terminate == WatchdogLive /\ wpc["kb"] = "r_term" /\ Terminate("kb", "r_wait")

restart_wait  == WatchdogLive /\ wpc["kb"] = "r_wait" /\ Wait("kb", "r_popen", "r_kill")

restart_kill  == WatchdogLive /\ wpc["kb"] = "r_kill" /\ Kill("kb", "r_popen")

restart_start_popen == WatchdogLive /\ wpc["kb"] = "r_popen" /\ Popen("kb", "r_store")

restart_start_store == WatchdogLive /\ wpc["kb"] = "r_store" /\ StoreProcess("kb", "r_ret")

restart_return ==
    /\ WatchdogLive
    /\ wpc["kb"] = "r_ret"
    /\ wpc' = [wpc EXCEPT !["kb"] = "idle"]
    /\ wnew' = [wnew EXCEPT !["kb"] = 0]
    /\ key' = "none"
    /\ UNCHANGED <<avars, process, running, alive, nextPid, hotkeys, crashes,
                   presses, termSent, stopReturned>>

\* ---- Watchdog.stop_watchdog (keyboard thread, or main thread after
\*      KeyboardInterrupt) ----
ThreadLive(t) == t = "main" \/ WatchdogLive

\* stop_watchdog without `self.running = False` ahead of the termination
stop_set_running_late(t) ==
    /\ ThreadLive(t)
    /\ wpc[t] = "s_running"
    /\ wpc' = [wpc EXCEPT ![t] = "s_poll"]
    /\ UNCHANGED <<avars, process, running, alive, nextPid, wnew, hotkeys, key,
                   crashes, presses, termSent, stopReturned>>

\* self.running = False
stop_set_running(t) ==
    /\ ThreadLive(t)
    /\ wpc[t] = "s_running"
    /\ running' = FALSE
    /\ wpc' = [wpc EXCEPT ![t] = "s_poll"]
    /\ UNCHANGED <<avars, process, alive, nextPid, wnew, hotkeys, key, crashes,
                   presses, termSent, stopReturned>>

stop_poll(t) == ThreadLive(t) /\ wpc[t] = "s_poll" /\ PollBranch(t, "s_term", "s_unhook")

stop_terminate(t) == ThreadLive(t) /\ wpc[t] = "s_term" /\ Terminate(t, "s_wait")

stop_wait(t) == ThreadLive(t) /\ wpc[t] = "s_wait" /\ Wait(t, "s_unhook", "s_kill")

stop_kill(t) == ThreadLive(t) /\ wpc[t] = "s_kill" /\ Kill(t, "s_unhook")

\* keyboard.unhook_all_hotkeys()
stop_unhook(t) ==
    /\ ThreadLive(t)
    /\ wpc[t] = "s_unhook"
    /\ hotkeys' = NoHotkeys
    /\ wpc' = [wpc EXCEPT ![t] = "s_ret"]
    /\ UNCHANGED <<avars, process, running, alive, nextPid, wnew, key, crashes,
                   presses, termSent, stopReturned>>

\* stop_watchdog returns: to the keyboard library, or to run(), which ends
stop_return(t) ==
    /\ ThreadLive(t)
    /\ wpc[t] = "s_ret"
    /\ stopReturned' = TRUE
    /\ wpc' = [wpc EXCEPT ![t] = IF t = "main" THEN "exit" ELSE "idle"]
    /\ key' = IF t = "kb" THEN "none" ELSE key
    /\ UNCHANGED <<avars, process, running, alive, nextPid, wnew, hotkeys,
                   crashes, presses, termSent>>

\* the monitor loop
MainStep ==
    \/ run_add_hotkey_restart
    \/ run_add_hotkey_stop
    \/ run_while
    \/ run_poll
    \/ run_check_running
    \/ run_start_popen
    \/ run_start_store
    \/ run_sleep

\* stop_watchdog on the main thread (the KeyboardInterrupt handler)
MainStopStep ==
    \/ stop_set_running("main")
    \/ stop_poll("main")
    \/ stop_terminate("main")
    \/ stop_wait("main")
    \/ stop_kill("main")
    \/ stop_unhook("main")
    \/ stop_return("main")

\* the hotkey callbacks on the keyboard thread
KbStep ==
    \/ restart_poll
    \/ restart_terminate
    \/ restart_wait
    \/ restart_kill
    \/ restart_start_popen
    \/ restart_start_store
    \/ restart_return
    \/ stop_set_running("kb")
    \/ stop_poll("kb")
    \/ stop_terminate("kb")
    \/ stop_wait("kb")
    \/ stop_kill("kb")
    \/ stop_unhook("kb")
    \/ stop_return("kb")

--------------------------------------------------------------------------
(***************************************************************************)
(* class App: unnamed/part_001 (three API clients handed out round-robin)  *)
(* and LMS_bypass.pyw (one client, every API call submitted to the pool    *)
(* and awaited with a timeout).  The keyboard library's thread runs the    *)
(* hotkey callbacks; the workers of self.executor run the submitted tasks. *)
(***************************************************************************)
\* self.executor = ThreadPoolExecutor(max_workers=8), scaled to this many
MaxWorkers == 2
\* how many operations of App are invoked
MaxOps == 4
\* how many _call_api calls the round-robin specification makes
MaxCalls == 5
\* len(self.clients): API_KEY1, API_KEY2, API_KEY3
NumClients == 3

Builds == {"part_001", "LMS_bypass"}

\* the thread that runs the hotkey callbacks and calls App's methods
HK == 0

Workers == 1..MaxWorkers

Threads == {HK} \cup Workers

NoThread == -1

\* None and "" alike: the code tests text only for truthiness
NoneText == <<>>

NoImage == 0

\* pyperclip.paste(): strings are sequences of characters
ClipboardContents == {<<>>, <<" ">>, <<"a">>, <<" ", "a">>, <<"a", " ">>, <<"b">>}

RECURSIVE LStrip(_)
LStrip(s) == IF s # <<>> /\ Head(s) = " " THEN LStrip(Tail(s)) ELSE s

RECURSIVE RStrip(_)
RStrip(s) ==
    IF s # <<>> /\ s[Len(s)] = " " THEN RStrip(SubSeq(s, 1, Len(s) - 1)) ELSE s

\* str.strip()
Strip(s) == RStrip(LStrip(s))

RECURSIVE Join(_)
\* "".join(l): the snippets run together without the separator
JoinNoSeparator(l) ==
    IF l = <<>> THEN <<>>
    ELSE IF Len(l) = 1 THEN l[1]
    ELSE l[1] \o Join(Tail(l))

\* " ".join(l)
Join(l) ==
    IF l = <<>> THEN <<>>
    ELSE IF Len(l) = 1 THEN l[1]
    ELSE l[1] \o <<" ">> \o Join(Tail(l))

\* what a request to the remote API can do: answer with text, answer with no
\* text, raise, or never complete
ApiOutcomes == {"ok", "empty", "exc", "never"}

\* no prompt built yet
NoPrompt == [kind |-> "none", text |-> NoneText, image |-> NoImage]

\* the prompt process_api_query builds: which of the three PROMPT_ constants
\* it starts with, and the inputs it carries
Prompt(text, image) ==
    [kind |-> IF text # NoneText /\ image # NoImage THEN "PROMPT_TEXT_IMAGE"
              ELSE IF text # NoneText THEN "PROMPT_TEXT_ONLY"
              ELSE "PROMPT_IMAGE_ONLY",
     text |-> text, image |-> image]

\* text, image: the inputs a task holds; ret: the caller _call_api returns
\* to; prompt: the prompt passed to _call_api; calls: requests sent to the
\* remote API by the current _call_api; adv: how often the current _call_api
\* advanced api_index; both: logged_text and captured_images were both
\* non-empty when the current process_current_query task started (kept until
\* the task's process_api_query goes on to _call_api); owner, pending, start:
\* see the actions using them
NoLocals ==
    [text |-> NoneText, image |-> NoImage, ret |-> "none", owner |-> NoThread,
     pending |-> 0, start |-> FALSE, prompt |-> NoPrompt, calls |-> 0, adv |-> 0,
     both |-> FALSE]

Task(kind, text, image, owner) ==
    [kind |-> kind, text |-> text, image |-> image, owner |-> owner]

\* App.__init__
AppInit(b) ==
    /\ build = b
    /\ text_lock = NoThread
    /\ image_lock = NoThread
    /\ api_lock = NoThread
    /\ logged_text = <<>>
    /\ logged_text_set = {}
    /\ captured_images = <<>>
    /\ screenshot_counter = 1
    /\ api_index = 0
    /\ grants = <<>>
    /\ apc = [t \in Threads |-> "idle"]
    /\ loc = [t \in Threads |-> NoLocals]
    /\ workq = <<>>
    /\ fut = [t \in Threads |-> "none"]
    /\ piqDone = <<>>
    /\ msg_queue = <<>>
    /\ overlays = <<>>
    /\ mpc = "check"
    /\ ops = 0

lockVars == <<text_lock, image_lock, api_lock>>

textVars == <<logged_text, logged_text_set>>

imageVars == <<captured_images, screenshot_counter>>

rrVars == <<api_index, grants>>

poolVars == <<workq, fut, piqDone>>

mvars == <<overlays, mpc>>

\* ---- on_copy (hotkey ctrl+alt+c) ----

\* content = pyperclip.paste().strip(); if content: ...
on_copy ==
    \E raw \in ClipboardContents :
        /\ apc[HK] = "idle"
        /\ ops < MaxOps
        /\ ops' = ops + 1
        /\ IF Strip(raw) # <<>>
             THEN /\ apc' = [apc EXCEPT ![HK] = "oc_acquire"]
                  /\ loc' = [loc EXCEPT ![HK].text = Strip(raw)]
             ELSE UNCHANGED <<apc, loc>>
        /\ UNCHANGED <<wvars, mvars, build, lockVars, textVars, imageVars, rrVars,
                       poolVars, msg_queue>>

\* with self.text_lock:
on_copy_acquire ==
    /\ apc[HK] = "oc_acquire"
    /\ text_lock = NoThread
    /\ text_lock' = HK
    /\ apc' = [apc EXCEPT ![HK] = "oc_body"]
    /\ UNCHANGED <<wvars, mvars, build, image_lock, api_lock, textVars, imageVars,
                   rrVars, poolVars, msg_queue, ops, loc>>

\* on_copy_body without the membership test
on_copy_body_unchecked ==
    /\ apc[HK] = "oc_body"
    /\ logged_text' = Append(logged_text, loc[HK].text)
    /\ logged_text_set' = logged_text_set \cup {loc[HK].text}
    /\ text_lock' = NoThread
    /\ apc' = [apc EXCEPT ![HK] = "idle"]
    /\ loc' = [loc EXCEPT ![HK] = NoLocals]
    /\ UNCHANGED <<wvars, mvars, build, image_lock, api_lock, imageVars, rrVars,
                   poolVars, msg_queue, ops>>

\* if content not in self.logged_text_set: append, add; the lock is released
on_copy_body ==
    /\ apc[HK] = "oc_body"
    /\ IF loc[HK].text \notin logged_text_set
         THEN /\ logged_text' = Append(logged_text, loc[HK].text)
              /\ logged_text_set' = logged_text_set \cup {loc[HK].text}
         ELSE UNCHANGED textVars
    /\ text_lock' = NoThread
    /\ apc' = [apc EXCEPT ![HK] = "idle"]
    /\ loc' = [loc EXCEPT ![HK] = NoLocals]
    /\ UNCHANGED <<wvars, mvars, build, image_lock, api_lock, imageVars, rrVars,
                   poolVars, msg_queue, ops>>

\* ---- capture_region (hotkey ctrl+alt+shift+c) ----

\* the overlay is shown and root.mainloop() runs
capture_region ==
    /\ apc[HK] = "idle"
    /\ ops < MaxOps
    /\ ops' = ops + 1
    /\ apc' = [apc EXCEPT ![HK] = "cap_loop"]
    /\ UNCHANGED <<wvars, mvars, build, lockVars, textVars, imageVars, rrVars,
                   poolVars, msg_queue, loc>>

\* on_button_press: start_x, start_y = event.x, event.y
capture_on_button_press ==
    /\ apc[HK] = "cap_loop"
    /\ ~loc[HK].start
    /\ loc' = [loc EXCEPT ![HK].start = TRUE]
    /\ UNCHANGED <<wvars, mvars, build, lockVars, textVars, imageVars, rrVars,
                   poolVars, msg_queue, ops, apc>>

\* on_release with start_x still None: min(None, end_x) raises TypeError in
\* the Tk callback, before root.destroy(); Tk reports it and mainloop goes on
capture_on_release_unpressed ==
    /\ apc[HK] = "cap_loop"
    /\ ~loc[HK].start
    /\ UNCHANGED <<wvars, avars>>

\* on_release: root.destroy(), then ImageGrab.grab succeeds or raises
capture_on_release ==
    /\ apc[HK] = "cap_loop"
    /\ loc[HK].start
    /\ \/ /\ apc' = [apc EXCEPT ![HK] = "cap_acquire"]
          /\ UNCHANGED <<msg_queue, loc>>
       \/ /\ msg_queue' = Append(msg_queue, "Error capturing screenshot")
          /\ apc' = [apc EXCEPT ![HK] = "idle"]
          /\ loc' = [loc EXCEPT ![HK] = NoLocals]
    /\ UNCHANGED <<wvars, mvars, build, lockVars, textVars, imageVars, rrVars,
                   poolVars, ops>>

\* with self.image_lock:
capture_acquire ==
    /\ apc[HK] = "cap_acquire"
    /\ image_lock = NoThread
    /\ image_lock' = HK
    /\ apc' = [apc EXCEPT ![HK] = "cap_body"]
    /\ UNCHANGED <<wvars, mvars, build, text_lock, api_lock, textVars, imageVars,
                   rrVars, poolVars, msg_queue, ops, loc>>

\* self.captured_images.append(image); the lock is released;
\* self.screenshot_counter += 1.  The image is named by the counter.
capture_body ==
    /\ apc[HK] = "cap_body"
    /\ captured_images' = Append(captured_images, screenshot_counter)
    /\ screenshot_counter' = screenshot_counter + 1
    /\ image_lock' = NoThread
    /\ apc' = [apc EXCEPT ![HK] = "idle"]
    /\ loc' = [loc EXCEPT ![HK] = NoLocals]
    /\ UNCHANGED <<wvars, mvars, build, text_lock, api_lock, textVars, rrVars,
                   poolVars, msg_queue, ops>>

\* ---- hotkey ctrl+alt+v: lambda: self.executor.submit(process_current_query)
submit_process_current_query ==
    /\ apc[HK] = "idle"
    /\ ops < MaxOps
    /\ ops' = ops + 1
    /\ workq' = Append(workq, Task("pcq", NoneText, NoImage, NoThread))
    /\ UNCHANGED <<wvars, mvars, build, lockVars, textVars, imageVars, rrVars,
                   fut, piqDone, msg_queue, apc, loc>>

\* ---- the pool ----

\* a worker takes the oldest submitted task.  Workers are interchangeable:
\* the lowest-numbered idle one takes it.
worker_take(w) ==
    /\ apc[w] = "idle"
    /\ workq # <<>>
    /\ \A v \in Workers : v < w => apc[v] # "idle"
    /\ workq' = Tail(workq)
    /\ LET task == Head(workq) IN
         CASE task.kind = "pcq" ->
                /\ apc' = [apc EXCEPT ![w] = "pcq_text"]
                /\ loc' = [loc EXCEPT ![w].both =
                             logged_text # <<>> /\ captured_images # <<>>]
           [] task.kind = "paq" ->
                /\ apc' = [apc EXCEPT ![w] = "paq"]
                /\ loc' = [loc EXCEPT ![w].text = task.text]
           [] task.kind = "psi" ->
                /\ apc' = [apc EXCEPT ![w] = "call_api"]
                /\ loc' = [loc EXCEPT ![w].image = task.image, ![w].ret = "psi"]
           [] task.kind = "gen" ->
                /\ apc' = [apc EXCEPT ![w] = "gen_run"]
                /\ loc' = [loc EXCEPT ![w].owner = task.owner]
    /\ UNCHANGED <<wvars, mvars, build, lockVars, textVars, imageVars, rrVars,
                   fut, piqDone, msg_queue, ops>>

\* ---- process_current_query (pool task) ----

\* with self.text_lock:
process_current_query_text_acquire(w) ==
    /\ apc[w] = "pcq_text"
    /\ text_lock = NoThread
    /\ text_lock' = w
    /\ apc' = [apc EXCEPT ![w] = "pcq_text_body"]
    /\ UNCHANGED <<wvars, mvars, build, image_lock, api_lock, textVars, imageVars,
                   rrVars, poolVars, msg_queue, ops, loc>>

\* process_current_query_text_body without the two clear() calls
process_current_query_text_body_no_clear(w) ==
    /\ apc[w] = "pcq_text_body"
    /\ loc' = [loc EXCEPT ![w].text =
                 IF logged_text # <<>> THEN Join(logged_text) ELSE NoneText]
    /\ UNCHANGED textVars
    /\ text_lock' = NoThread
    /\ apc' = [apc EXCEPT ![w] = "pcq_img"]
    /\ UNCHANGED <<wvars, mvars, build, image_lock, api_lock, imageVars, rrVars,
                   poolVars, msg_queue, ops>>

\* text = " ".join(self.logged_text) if self.logged_text else None; both
\* containers are cleared; the lock is released
process_current_query_text_body(w) ==
    /\ apc[w] = "pcq_text_body"
    /\ loc' = [loc EXCEPT ![w].text =
                 IF logged_text # <<>> THEN Join(logged_text) ELSE NoneText]
    /\ logged_text' = <<>>
    /\ logged_text_set' = {}
    /\ text_lock' = NoThread
    /\ apc' = [apc EXCEPT ![w] = "pcq_img"]
    /\ UNCHANGED <<wvars, mvars, build, image_lock, api_lock, imageVars, rrVars,
                   poolVars, msg_queue, ops>>

\* with self.image_lock:
process_current_query_image_acquire(w) ==
    /\ apc[w] = "pcq_img"
    /\ image_lock = NoThread
    /\ image_lock' = w
    /\ apc' = [apc EXCEPT ![w] = "pcq_img_body"]
    /\ UNCHANGED <<wvars, mvars, build, text_lock, api_lock, textVars, imageVars,
                   rrVars, poolVars, msg_queue, ops, loc>>

\* process_current_query_image_body with pop(0) instead of pop()
process_current_query_image_body_pop_first(w) ==
    /\ apc[w] = "pcq_img_body"
    /\ IF captured_images # <<>>
         THEN /\ loc' = [loc EXCEPT ![w].image = Head(captured_images)]
              /\ captured_images' = Tail(captured_images)
         ELSE /\ loc' = [loc EXCEPT ![w].image = NoImage]
              /\ UNCHANGED captured_images
    /\ image_lock' = NoThread
    /\ apc' = [apc EXCEPT ![w] = "paq"]
    /\ UNCHANGED <<wvars, mvars, build, text_lock, api_lock, textVars, screenshot_counter,
                   rrVars, poolVars, msg_queue, ops>>

\* image = self.captured_images.pop() if self.captured_images else None
process_current_query_image_body(w) ==
    /\ apc[w] = "pcq_img_body"
    /\ IF captured_images # <<>>
         THEN /\ loc' = [loc EXCEPT ![w].image = captured_images[Len(captured_images)]]
              /\ captured_images' = SubSeq(captured_images, 1, Len(captured_images) - 1)
         ELSE /\ loc' = [loc EXCEPT ![w].image = NoImage]
              /\ UNCHANGED captured_images
    /\ image_lock' = NoThread
    /\ apc' = [apc EXCEPT ![w] = "paq"]
    /\ UNCHANGED <<wvars, mvars, build, text_lock, api_lock, textVars, screenshot_counter,
                   rrVars, poolVars, msg_queue, ops>>

\* ---- process_api_query ----

\* process_api_query with `elif text_input:` tested before
\* `if text_input and image_input:`
process_api_query_text_first(w) ==
    /\ apc[w] = "paq"
    /\ IF loc[w].text = NoneText /\ loc[w].image = NoImage
         THEN /\ msg_queue' = Append(msg_queue, "No content provided!")
              /\ apc' = [apc EXCEPT ![w] = "idle"]
              /\ loc' = [loc EXCEPT ![w] = NoLocals]
         ELSE /\ apc' = [apc EXCEPT ![w] = "call_api"]
              /\ loc' = [loc EXCEPT ![w].ret = "paq", ![w].both = FALSE,
                                    ![w].prompt =
                                       IF loc[w].text # NoneText
                                         THEN Prompt(loc[w].text, NoImage)
                                         ELSE Prompt(loc[w].text, loc[w].image)]
              /\ UNCHANGED msg_queue
    /\ UNCHANGED <<wvars, mvars, build, lockVars, textVars, imageVars, rrVars,
                   poolVars, ops>>

\* `if not text_input and not image_input:` "No content provided!", return
\* None; otherwise the prompt is built and self._call_api is called
process_api_query(w) ==
    /\ apc[w] = "paq"
    /\ IF loc[w].text = NoneText /\ loc[w].image = NoImage
         THEN /\ msg_queue' = Append(msg_queue, "No content provided!")
              /\ apc' = [apc EXCEPT ![w] = "idle"]
              /\ loc' = [loc EXCEPT ![w] = NoLocals]
         ELSE /\ apc' = [apc EXCEPT ![w] = "call_api"]
              /\ loc' = [loc EXCEPT ![w].ret = "paq", ![w].both = FALSE,
                                    ![w].prompt = Prompt(loc[w].text, loc[w].image)]
              /\ UNCHANGED msg_queue
    /\ UNCHANGED <<wvars, mvars, build, lockVars, textVars, imageVars, rrVars,
                   poolVars, ops>>

\* ---- _call_api ----

\* _call_api has returned r to its caller, which finishes: process_api_query
\* and process_combined_query show a truthy answer, _process_single_image
\* returns it through its future; mq is the message queue so far
Finish(t, r, mq) ==
    /\ msg_queue' = IF loc[t].ret \in {"paq", "pcb"} /\ r = "ok"
                      THEN Append(mq, "answer") ELSE mq
    /\ piqDone' = IF loc[t].ret = "psi" THEN Append(piqDone, r) ELSE piqDone
    /\ apc' = [apc EXCEPT ![t] = "idle"]

\* self.api_index with the modulo forgotten
NextIndexNoWrap(i) == i + 1

\* (self.api_index + 1) % len(self.clients)
NextIndex(i) == (i + 1) % NumClients

\* part_001, _get_next_client: with self.api_lock:
get_next_client_acquire(t) ==
    /\ build = "part_001"
    /\ apc[t] = "call_api"
    /\ api_lock = NoThread
    /\ api_lock' = t
    /\ apc' = [apc EXCEPT ![t] = "gnc_body"]
    /\ UNCHANGED <<wvars, mvars, build, text_lock, image_lock, textVars, imageVars,
                   rrVars, poolVars, msg_queue, ops, loc>>

\* client = self.clients[self.api_index]; the index advances; the lock is
\* released and the client returned.  A client is named by its index.
get_next_client_body(t) ==
    /\ apc[t] = "gnc_body"
    /\ grants' = Append(grants, api_index)
    /\ api_index' = NextIndex(api_index)
    /\ api_lock' = NoThread
    /\ apc' = [apc EXCEPT ![t] = "api_single"]
    /\ loc' = [loc EXCEPT ![t].adv = loc[t].adv + 1]
    /\ UNCHANGED <<wvars, mvars, build, text_lock, image_lock, textVars, imageVars,
                   poolVars, msg_queue, ops>>

\* part_001, _call_api_single: the request is sent
\* (client.models.generate_content_stream(...))
call_api_single_request(t) ==
    /\ apc[t] = "api_single"
    /\ apc' = [apc EXCEPT ![t] = "api_stream"]
    /\ loc' = [loc EXCEPT ![t].calls = loc[t].calls + 1]
    /\ UNCHANGED <<wvars, mvars, build, lockVars, textVars, imageVars, rrVars,
                   poolVars, msg_queue, ops>>

\* _call_api_single without its `except Exception`: the exception leaves
\* _call_api and ends the caller
call_api_single_uncaught(t) ==
    /\ apc[t] = "api_stream"
    /\ \E o \in ApiOutcomes :
         \/ /\ o = "never"
            /\ apc' = [apc EXCEPT ![t] = "api_blocked"]
            /\ UNCHANGED <<msg_queue, piqDone, loc>>
         \/ /\ o \in {"ok", "empty"}
            /\ Finish(t, o, msg_queue)
            /\ loc' = [loc EXCEPT ![t] = NoLocals]
         \/ /\ o = "exc"
            /\ apc' = [apc EXCEPT ![t] = "raised"]
            /\ UNCHANGED <<msg_queue, piqDone, loc>>
    /\ UNCHANGED <<wvars, mvars, build, lockVars, textVars, imageVars, rrVars,
                   workq, fut, ops>>

\* _call_api_single sending the request once more after a first exception
call_api_single_retrying(t) ==
    /\ apc[t] = "api_stream"
    /\ \E o \in ApiOutcomes :
         \/ /\ o = "never"
            /\ apc' = [apc EXCEPT ![t] = "api_blocked"]
            /\ UNCHANGED <<msg_queue, piqDone, loc>>
         \/ /\ o \in {"ok", "empty"}
            /\ Finish(t, o, msg_queue)
            /\ loc' = [loc EXCEPT ![t] = NoLocals]
         \/ /\ o = "exc"
            /\ loc[t].calls < 2
            /\ apc' = [apc EXCEPT ![t] = "api_single"]
            /\ UNCHANGED <<msg_queue, piqDone, loc>>
         \/ /\ o = "exc"
            /\ loc[t].calls >= 2
            /\ Finish(t, "none", Append(msg_queue, "API call error"))
            /\ loc' = [loc EXCEPT ![t] = NoLocals]
    /\ UNCHANGED <<wvars, mvars, build, lockVars, textVars, imageVars, rrVars,
                   workq, fut, ops>>

\* part_001, _call_api_single: the streamed request returns text, returns
\* nothing, raises (error message, None), or never completes: there is no
\* timeout, the thread stays in generate_content_stream
call_api_single(t) ==
    /\ apc[t] = "api_stream"
    /\ \E o \in ApiOutcomes :
         \/ /\ o = "never"
            /\ apc' = [apc EXCEPT ![t] = "api_blocked"]
            /\ UNCHANGED <<msg_queue, piqDone, loc>>
         \/ /\ o \in {"ok", "empty"}
            /\ Finish(t, o, msg_queue)
            /\ loc' = [loc EXCEPT ![t] = NoLocals]
         \/ /\ o = "exc"
            /\ Finish(t, "none", Append(msg_queue, "API call error"))
            /\ loc' = [loc EXCEPT ![t] = NoLocals]
    /\ UNCHANGED <<wvars, mvars, build, lockVars, textVars, imageVars, rrVars,
                   workq, fut, ops>>

\* LMS_bypass, _call_api: future = self.executor.submit(generate_content, ...)
call_api_submit(t) ==
    /\ build = "LMS_bypass"
    /\ apc[t] = "call_api"
    /\ workq' = Append(workq, Task("gen", NoneText, NoImage, t))
    /\ fut' = [fut EXCEPT ![t] = "pending"]
    /\ apc' = [apc EXCEPT ![t] = "fut_wait"]
    /\ loc' = [loc EXCEPT ![t].calls = loc[t].calls + 1]
    /\ UNCHANGED <<wvars, mvars, build, lockVars, textVars, imageVars, rrVars,
                   piqDone, msg_queue, ops>>

\* future.result(timeout=40) returns response.text or re-raises
call_api_result(t) ==
    /\ apc[t] = "fut_wait"
    /\ fut[t] \in {"ok", "empty", "exc"}
    /\ IF fut[t] = "exc"
         THEN Finish(t, "none", Append(msg_queue, "API call error"))
         ELSE Finish(t, fut[t], msg_queue)
    /\ fut' = [fut EXCEPT ![t] = "none"]
    /\ loc' = [loc EXCEPT ![t] = NoLocals]
    /\ UNCHANGED <<wvars, mvars, build, lockVars, textVars, imageVars, rrVars,
                   workq, ops>>

\* future.result(timeout=40) raises TimeoutError: "API call timed out!",
\* None.  The submitted task is not cancelled: it stays queued or running,
\* and nobody reads its result any more.
call_api_timeout(t) ==
    /\ apc[t] = "fut_wait"
    /\ fut[t] = "pending"
    /\ Finish(t, "none", Append(msg_queue, "API call timed out!"))
    /\ fut' = [fut EXCEPT ![t] = "none"]
    /\ workq' = [i \in DOMAIN workq |->
                   IF workq[i].owner = t
                     THEN [workq[i] EXCEPT !.owner = NoThread] ELSE workq[i]]
    /\ loc' = [u \in Threads |->
                 IF u = t THEN NoLocals
                 ELSE IF loc[u].owner = t THEN [loc[u] EXCEPT !.owner = NoThread]
                 ELSE loc[u]]
    /\ UNCHANGED <<wvars, mvars, build, lockVars, textVars, imageVars, rrVars, ops>>

\* LMS_bypass, the submitted self.client.models.generate_content on a pool
\* worker: it completes the future, or never returns
generate_content(w) ==
    /\ apc[w] = "gen_run"
    /\ \E o \in ApiOutcomes :
         \/ /\ o = "never"
            /\ apc' = [apc EXCEPT ![w] = "gen_blocked"]
            /\ UNCHANGED <<fut, loc>>
         \/ /\ o # "never"
            /\ fut' = IF loc[w].owner # NoThread
                        THEN [fut EXCEPT ![loc[w].owner] = o] ELSE fut
            /\ apc' = [apc EXCEPT ![w] = "idle"]
            /\ loc' = [loc EXCEPT ![w] = NoLocals]
    /\ UNCHANGED <<wvars, mvars, build, lockVars, textVars, imageVars, rrVars,
                   workq, piqDone, msg_queue, ops>>

\* ---- process_text_only_query ----
process_text_only_query ==
    /\ apc[HK] = "idle"
    /\ ops < MaxOps
    /\ ops' = ops + 1
    /\ apc' = [apc EXCEPT ![HK] = "ptq_acquire"]
    /\ UNCHANGED <<wvars, mvars, build, lockVars, textVars, imageVars, rrVars,
                   poolVars, msg_queue, loc>>

process_text_only_query_acquire ==
    /\ apc[HK] = "ptq_acquire"
    /\ text_lock = NoThread
    /\ text_lock' = HK
    /\ apc' = [apc EXCEPT ![HK] = "ptq_body"]
    /\ UNCHANGED <<wvars, mvars, build, image_lock, api_lock, textVars, imageVars,
                   rrVars, poolVars, msg_queue, ops, loc>>

\* no text: message and return (the `with` releases the lock); otherwise the
\* text is joined, both containers cleared, the lock released and
\* process_api_query(text_input=combined_text) submitted to the pool
process_text_only_query_body ==
    /\ apc[HK] = "ptq_body"
    /\ IF logged_text = <<>>
         THEN /\ msg_queue' = Append(msg_queue, "No text content available!")
              /\ UNCHANGED <<textVars, workq>>
         ELSE /\ workq' = Append(workq, Task("paq", Join(logged_text), NoImage, NoThread))
              /\ logged_text' = <<>>
              /\ logged_text_set' = {}
              /\ UNCHANGED msg_queue
    /\ text_lock' = NoThread
    /\ apc' = [apc EXCEPT ![HK] = "idle"]
    /\ UNCHANGED <<wvars, mvars, build, image_lock, api_lock, imageVars, rrVars,
                   fut, piqDone, ops, loc>>

\* ---- process_image_only_query ----
process_image_only_query ==
    /\ apc[HK] = "idle"
    /\ ops < MaxOps
    /\ ops' = ops + 1
    /\ apc' = [apc EXCEPT ![HK] = "piq_acquire"]
    /\ UNCHANGED <<wvars, mvars, build, lockVars, textVars, imageVars, rrVars,
                   poolVars, msg_queue, loc>>

process_image_only_query_acquire ==
    /\ apc[HK] = "piq_acquire"
    /\ image_lock = NoThread
    /\ image_lock' = HK
    /\ apc' = [apc EXCEPT ![HK] = "piq_body"]
    /\ UNCHANGED <<wvars, mvars, build, text_lock, api_lock, textVars, imageVars,
                   rrVars, poolVars, msg_queue, ops, loc>>

\* no image: message and return; otherwise the images are copied, the list
\* cleared, the lock released and one _process_single_image task submitted
\* per image
process_image_only_query_body ==
    /\ apc[HK] = "piq_body"
    /\ IF captured_images = <<>>
         THEN /\ msg_queue' = Append(msg_queue, "No images available for processing!")
              /\ apc' = [apc EXCEPT ![HK] = "idle"]
              /\ UNCHANGED <<captured_images, workq, loc>>
         ELSE /\ workq' = workq \o [i \in 1..Len(captured_images) |->
                                     Task("psi", NoneText, captured_images[i], NoThread)]
              /\ captured_images' = <<>>
              /\ loc' = [loc EXCEPT ![HK].pending = Len(captured_images)]
              /\ apc' = [apc EXCEPT ![HK] = "piq_wait"]
              /\ UNCHANGED msg_queue
    /\ image_lock' = NoThread
    /\ UNCHANGED <<wvars, mvars, build, text_lock, api_lock, textVars, screenshot_counter,
                   rrVars, fut, piqDone, ops>>

\* for future in as_completed(futures): a truthy result is shown; the method
\* returns after the last future
process_image_only_query_wait ==
    /\ apc[HK] = "piq_wait"
    /\ piqDone # <<>>
    /\ piqDone' = Tail(piqDone)
    /\ msg_queue' = IF Head(piqDone) = "ok" THEN Append(msg_queue, "answer")
                    ELSE msg_queue
    /\ IF loc[HK].pending = 1
         THEN /\ apc' = [apc EXCEPT ![HK] = "idle"]
              /\ loc' = [loc EXCEPT ![HK] = NoLocals]
         ELSE /\ loc' = [loc EXCEPT ![HK].pending = loc[HK].pending - 1]
              /\ UNCHANGED apc
    /\ UNCHANGED <<wvars, mvars, build, lockVars, textVars, imageVars, rrVars,
                   workq, fut, ops>>

\* ---- process_combined_query ----
process_combined_query ==
    /\ apc[HK] = "idle"
    /\ ops < MaxOps
    /\ ops' = ops + 1
    /\ apc' = [apc EXCEPT ![HK] = "pcb_text"]
    /\ UNCHANGED <<wvars, mvars, build, lockVars, textVars, imageVars, rrVars,
                   poolVars, msg_queue, loc>>

process_combined_query_text_acquire ==
    /\ apc[HK] = "pcb_text"
    /\ text_lock = NoThread
    /\ text_lock' = HK
    /\ apc' = [apc EXCEPT ![HK] = "pcb_text_body"]
    /\ UNCHANGED <<wvars, mvars, build, image_lock, api_lock, textVars, imageVars,
                   rrVars, poolVars, msg_queue, ops, loc>>

\* no text: message and return; otherwise the text is joined and both
\* containers cleared; the lock is released either way
process_combined_query_text_body ==
    /\ apc[HK] = "pcb_text_body"
    /\ IF logged_text = <<>>
         THEN /\ msg_queue' = Append(msg_queue, "No text content available for combined query!")
              /\ apc' = [apc EXCEPT ![HK] = "idle"]
              /\ UNCHANGED <<textVars, loc>>
         ELSE /\ loc' = [loc EXCEPT ![HK].text = Join(logged_text)]
              /\ logged_text' = <<>>
              /\ logged_text_set' = {}
              /\ apc' = [apc EXCEPT ![HK] = "pcb_img"]
              /\ UNCHANGED msg_queue
    /\ text_lock' = NoThread
    /\ UNCHANGED <<wvars, mvars, build, image_lock, api_lock, imageVars, rrVars,
                   poolVars, ops>>

process_combined_query_image_acquire ==
    /\ apc[HK] = "pcb_img"
    /\ image_lock = NoThread
    /\ image_lock' = HK
    /\ apc' = [apc EXCEPT ![HK] = "pcb_img_body"]
    /\ UNCHANGED <<wvars, mvars, build, text_lock, api_lock, textVars, imageVars,
                   rrVars, poolVars, msg_queue, ops, loc>>

\* process_combined_query_image_body returning early with the lock kept
process_combined_query_image_body_keeps_lock ==
    /\ apc[HK] = "pcb_img_body"
    /\ IF captured_images = <<>>
         THEN /\ msg_queue' = Append(msg_queue, "No captured images available for combined query!")
              /\ apc' = [apc EXCEPT ![HK] = "idle"]
              /\ loc' = [loc EXCEPT ![HK] = NoLocals]
              /\ UNCHANGED <<captured_images, image_lock>>
         ELSE /\ loc' = [loc EXCEPT ![HK].image = captured_images[Len(captured_images)],
                                    ![HK].ret = "pcb"]
              /\ captured_images' = SubSeq(captured_images, 1, Len(captured_images) - 1)
              /\ apc' = [apc EXCEPT ![HK] = "call_api"]
              /\ image_lock' = NoThread
              /\ UNCHANGED msg_queue
    /\ UNCHANGED <<wvars, mvars, build, text_lock, api_lock, textVars, screenshot_counter,
                   rrVars, poolVars, ops>>

\* no image: message and return; otherwise the last image is popped; the
\* lock is released either way, then self._call_api is called
process_combined_query_image_body ==
    /\ apc[HK] = "pcb_img_body"
    /\ IF captured_images = <<>>
         THEN /\ msg_queue' = Append(msg_queue, "No captured images available for combined query!")
              /\ apc' = [apc EXCEPT ![HK] = "idle"]
              /\ loc' = [loc EXCEPT ![HK] = NoLocals]
              /\ UNCHANGED captured_images
         ELSE /\ loc' = [loc EXCEPT ![HK].image = captured_images[Len(captured_images)],
                                    ![HK].ret = "pcb"]
              /\ captured_images' = SubSeq(captured_images, 1, Len(captured_images) - 1)
              /\ apc' = [apc EXCEPT ![HK] = "call_api"]
              /\ UNCHANGED msg_queue
    /\ image_lock' = NoThread
    /\ UNCHANGED <<wvars, mvars, build, text_lock, api_lock, textVars, screenshot_counter,
                   rrVars, poolVars, ops>>

\* ---- a pool task reaches self._call_api(model, prompt) ----
call_api_from_task(w) ==
    /\ apc[w] = "idle"
    /\ ops < MaxCalls
    /\ ops' = ops + 1
    /\ apc' = [apc EXCEPT ![w] = "call_api"]
    /\ loc' = [loc EXCEPT ![w].ret = "task"]
    /\ UNCHANGED <<wvars, mvars, build, lockVars, textVars, imageVars, rrVars,
                   poolVars, msg_queue>>

\* ---- class MessageManager ----

\* how many messages the callers of show_message enqueue
MaxMessages == 3

\* the texts passed to show_message
MessageTexts == {"answer", "API call error"}

appVarsOfManager ==
    <<build, lockVars, textVars, imageVars, rrVars, poolVars, apc, loc>>

\* show_message, called from any thread: self.msg_queue.put(message_text)
show_message ==
    \E m \in MessageTexts :
        /\ ops < MaxMessages
        /\ ops' = ops + 1
        /\ msg_queue' = Append(msg_queue, m)
        /\ UNCHANGED <<wvars, mvars, appVarsOfManager>>

\* _check_queue: msg = self.msg_queue.get_nowait(); self._show_message(msg)
\* creates the window and arms win.after(5000, win.destroy)
check_queue_get ==
    /\ mpc = "check"
    /\ msg_queue # <<>>
    /\ msg_queue' = Tail(msg_queue)
    /\ overlays' = Append(overlays, Head(msg_queue))
    /\ UNCHANGED <<wvars, appVarsOfManager, mpc, ops>>

\* _check_queue without the re-arming self.root.after(100, ...)
check_queue_empty_once ==
    /\ mpc = "check"
    /\ msg_queue = <<>>
    /\ mpc' = "stopped"
    /\ UNCHANGED <<wvars, appVarsOfManager, msg_queue, overlays, ops>>

\* _check_queue: queue.Empty ends the loop;
\* self.root.after(100, self._check_queue)
check_queue_empty ==
    /\ mpc = "check"
    /\ msg_queue = <<>>
    /\ mpc' = "mainloop"
    /\ UNCHANGED <<wvars, appVarsOfManager, msg_queue, overlays, ops>>

\* root.mainloop(): the 100 ms timer fires and Tk calls _check_queue
check_queue_timer ==
    /\ mpc = "mainloop"
    /\ mpc' = "check"
    /\ UNCHANGED <<wvars, appVarsOfManager, msg_queue, overlays, ops>>

\* root.mainloop(): the 5000 ms timer of the oldest window fires:
\* win.destroy().  Tk runs one callback at a time, so not inside _check_queue.
overlay_destroy ==
    /\ mpc # "check"
    /\ overlays # <<>>
    /\ overlays' = Tail(overlays)
    /\ UNCHANGED <<wvars, appVarsOfManager, msg_queue, mpc, ops>>

\* the MessageManager thread (_run)
ManagerStep ==
    \/ check_queue_get
    \/ check_queue_empty
    \/ check_queue_timer
    \/ overlay_destroy

\* MessageManager with its callers
MessagesNext ==
    \/ show_message
    \/ ManagerStep

\* the hotkey callbacks on the hotkey thread, once invoked
HotkeyThreadStep ==
    \/ on_copy_acquire
    \/ on_copy_body
    \/ capture_acquire
    \/ capture_body

\* the methods of App that no hotkey is registered for, once called
MethodStep ==
    \/ process_text_only_query_acquire
    \/ process_text_only_query_body
    \/ process_image_only_query_acquire
    \/ process_image_only_query_body
    \/ process_image_only_query_wait
    \/ process_combined_query_text_acquire
    \/ process_combined_query_text_body
    \/ process_combined_query_image_acquire
    \/ process_combined_query_image_body

\* the steps of _call_api on thread t
CallApiStep(t) ==
    \/ get_next_client_acquire(t)
    \/ get_next_client_body(t)
    \/ call_api_single_request(t)
    \/ call_api_single(t)
    \/ call_api_submit(t)
    \/ call_api_result(t)
    \/ call_api_timeout(t)

\* the steps of a pool worker
WorkerStep(w) ==
    \/ worker_take(w)
    \/ process_current_query_text_acquire(w)
    \/ process_current_query_text_body(w)
    \/ process_current_query_image_acquire(w)
    \/ process_current_query_image_body(w)
    \/ process_api_query(w)
    \/ generate_content(w)

\* the operator: the three registered hotkeys and the mouse on the overlay
Operator ==
    \/ on_copy
    \/ capture_region
    \/ capture_on_button_press
    \/ capture_on_release_unpressed
    \/ capture_on_release
    \/ submit_process_current_query

\* a caller of the methods no hotkey is registered for
MethodCall ==
    \/ process_text_only_query
    \/ process_image_only_query
    \/ process_combined_query

\* the program as run() registers it
AppNext ==
    \/ Operator
    \/ HotkeyThreadStep
    \/ \E w \in Workers : CallApiStep(w)
    \/ \E w \in Workers : WorkerStep(w)

\* the program, and the other methods of App called as well
MethodsNext ==
    \/ Operator
    \/ MethodCall
    \/ HotkeyThreadStep
    \/ MethodStep
    \/ \E t \in Threads : CallApiStep(t)
    \/ \E w \in Workers : WorkerStep(w)

\* the clipboard accumulator and everything that takes text from it: on_copy,
\* the Ctrl+Alt+V tasks, process_text_only_query and process_combined_query
TextNext ==
    \/ on_copy
    \/ on_copy_acquire
    \/ on_copy_body
    \/ submit_process_current_query
    \/ process_text_only_query
    \/ process_text_only_query_acquire
    \/ process_text_only_query_body
    \/ process_combined_query
    \/ process_combined_query_text_acquire
    \/ process_combined_query_text_body
    \/ process_combined_query_image_acquire
    \/ process_combined_query_image_body
    \/ \E t \in Threads : CallApiStep(t)
    \/ \E w \in Workers : WorkerStep(w)

\* pool workers calling _call_api of part_001 concurrently
RoundRobinNext ==
    \/ \E w \in Workers : call_api_from_task(w)
    \/ \E w \in Workers : get_next_client_acquire(w)
    \/ \E w \in Workers : get_next_client_body(w)
    \/ \E w \in Workers : call_api_single_request(w)
    \/ \E w \in Workers : call_api_single(w)

--------------------------------------------------------------------------
(***************************************************************************)
(* Specifications                                                          *)
(***************************************************************************)
Init == WInit /\ AppInit("part_001")

\* the monitor loop interleaved with the hotkey callbacks
Next ==
    \/ MainStep
    \/ KbStep
    \/ KeyPress
    \/ ChildExit

\* the same, with KeyboardInterrupt reaching the main thread
NextInterrupt ==
    \/ MainStep
    \/ MainStopStep
    \/ KbStep
    \/ KeyPress
    \/ ChildExit
    \/ run_KeyboardInterrupt

\* the watchdog under every interleaving of the monitor loop with the hotkey
\* callbacks
Spec == Init /\ [][Next]_vars

\* the watchdog with KeyboardInterrupt as well
SpecInterrupt == Init /\ [][NextInterrupt]_vars

\* the main thread never blocks and the operating system keeps scheduling it:
\* the monitor loop, and the interrupt handler once entered, keep stepping
FairSpecInterrupt ==
    SpecInterrupt /\ WF_vars(MainStep) /\ WF_vars(MainStopStep)

\* either build of App, its hotkey thread and its pool workers interleaved
InitApp == WInit /\ \E b \in Builds : AppInit(b)

SpecApp == InitApp /\ [][AppNext]_vars

\* every thread that can take a step is scheduled
FairSpecApp ==
    /\ SpecApp
    /\ WF_vars(HotkeyThreadStep)
    /\ \A w \in Workers : WF_vars(CallApiStep(w))
    /\ \A w \in Workers : WF_vars(WorkerStep(w))

\* either build of App with all its methods called
SpecMethods == InitApp /\ [][MethodsNext]_vars

\* part_001: the pool workers calling _call_api concurrently
SpecRoundRobin == Init /\ [][RoundRobinNext]_vars

\* the text buffer and its consumers, in either build
SpecText == InitApp /\ [][TextNext]_vars

\* MessageManager: its thread runs Tk's mainloop, which serves every timer
\* armed with after() once it is due: the polling keeps going, and a window's
\* destroy timer is served although polls come in between
SpecMessages ==
    /\ Init /\ [][MessagesNext]_vars
    /\ WF_vars(check_queue_get \/ check_queue_empty \/ check_queue_timer)
    /\ SF_vars(overlay_destroy)

--------------------------------------------------------------------------
(***************************************************************************)
(* Properties of the watchdog                                              *)
(***************************************************************************)
\* a thread is between Popen(...) returning and `self.process = ...`
InStartProcess(t) == wpc[t] \in {"m_store", "r_store"}

StopPcs == {"s_running", "s_poll", "s_term", "s_wait", "s_kill", "s_unhook", "s_ret"}

\* C1: at most one monitored child is alive at any time, and an alive child
\* is the one self.process references (or the one start_process is about to
\* store there): no started child is orphaned.
C1_NoChildLeak ==
    /\ Cardinality(alive) <= 1
    /\ \A c \in alive :
          \/ c = process
          \/ \E t \in WThreads : InStartProcess(t) /\ wnew[t] = c

\* C2: while the watchdog is not stopped, "the child referenced by
\* self.process has exited" leads to "self.process references an alive child"
\* (or to the watchdog being stopped meanwhile).
C2_RestartOnCrash ==
    (running /\ process \notin alive) ~> (process \in alive \/ ~running)

\* C2 witness: the monitor loop has just restarted a child that had exited on
\* its own.
C2_Witness ==
    /\ wpc["main"] = "sleep"
    /\ wnew["main"] # 0
    /\ process = wnew["main"]
    /\ process \in alive
    /\ crashes > 0
    /\ running

\* C3: restart_process ends with exactly one newly started child, referenced
\* by self.process, and when that child is started no earlier child is alive.
C3_RestartEndsWithOneNewChild ==
    /\ wpc["kb"] = "r_store" => alive \subseteq {wnew["kb"]}
    /\ wpc["kb"] = "r_ret" => (process = wnew["kb"] /\ alive \subseteq {process})

\* C4: once stop_watchdog has returned, no monitored child is alive (so none
\* was left running and none has been started since).
C4_StopLeavesNothingRunning == stopReturned => alive = {}

\* C5: the key combination that stop_watchdog is registered for, and that
\* makes it run on the keyboard thread, is Ctrl+Shift+Q.
C5_StopHotkeyIsCtrlShiftQ ==
    /\ (\E k \in Keys : hotkeys[k] = "stop_watchdog")
          => hotkeys["ctrl+shift+q"] = "stop_watchdog"
    /\ wpc["kb"] \in StopPcs => key = "ctrl+shift+q"


--------------------------------------------------------------------------
(***************************************************************************)
(* Properties of App                                                       *)
(***************************************************************************)
Range(f) == {f[i] : i \in DOMAIN f}

\* the positions at which a thread is inside _call_api
CallApiPcs ==
    {"call_api", "gnc_body", "api_single", "api_stream", "api_blocked", "fut_wait"}

\* the positions inside each `with` block
TextLockPcs == {"oc_body", "pcq_text_body", "ptq_body", "pcb_text_body"}

ImageLockPcs == {"cap_body", "pcq_img_body", "piq_body", "pcb_img_body"}

ApiLockPcs == {"gnc_body"}

\* C6: the k-th client handed out by _get_next_client is clients[k mod 3]
\* (k counted from 0 in the order the lock was taken), and api_index stays
\* within 0..len(clients)-1.
C6_RoundRobin ==
    /\ \A k \in 1..Len(grants) : grants[k] = (k - 1) % NumClients
    /\ api_index \in 0..(NumClients - 1)
    /\ api_index = Len(grants) % NumClients

\* C6 witness: a fourth client has been handed out (the index has wrapped)
\* while another worker is waiting for, or holds, the lock.
C6_Witness ==
    /\ Len(grants) >= NumClients + 1
    /\ \E w \in Workers : apc[w] \in {"call_api", "gnc_body"}

\* C7: every call of _call_api ends: a thread inside _call_api eventually
\* leaves it (with an answer or with None), also when the remote request
\* never completes.
C7_CallApiAlwaysReturns ==
    \A t \in Threads : (apc[t] \in CallApiPcs) ~> (apc[t] \notin CallApiPcs)

\* C8: the pool never has all its workers blocked on the result of a task
\* that is still queued in the same pool behind them.
C8_NoPoolStarvation ==
    ~ /\ \A w \in Workers : apc[w] = "fut_wait" /\ fut[w] = "pending"
      /\ \E i \in DOMAIN workq : workq[i].kind = "gen"

\* C9: a lock is held only inside its `with` block (so it is released on
\* every path, never held during an API call, and its holder can always go
\* on), a thread inside a `with` block is the holder, and no thread holds two
\* locks.
C9_LockDiscipline ==
    /\ text_lock # NoThread => apc[text_lock] \in TextLockPcs
    /\ image_lock # NoThread => apc[image_lock] \in ImageLockPcs
    /\ api_lock # NoThread => apc[api_lock] \in ApiLockPcs
    /\ \A t \in Threads :
          /\ apc[t] \in TextLockPcs => text_lock = t
          /\ apc[t] \in ImageLockPcs => image_lock = t
          /\ apc[t] \in ApiLockPcs => api_lock = t
          /\ Cardinality({l \in {"text", "image", "api"} :
                            \/ l = "text" /\ text_lock = t
                            \/ l = "image" /\ image_lock = t
                            \/ l = "api" /\ api_lock = t}) <= 1
          /\ apc[t] \in (CallApiPcs \cup {"idle", "gen_run", "gen_blocked", "piq_wait"}) \ ApiLockPcs
               => text_lock # t /\ image_lock # t /\ api_lock # t

\* C9 witness: two locks are held at once, by different threads, while a
\* third thread is inside _call_api.
C9_Witness ==
    /\ text_lock # NoThread
    /\ image_lock # NoThread
    /\ text_lock # image_lock
    /\ \E t \in Threads : apc[t] \in CallApiPcs

\* C10: whenever no thread is inside a text_lock block, logged_text has no
\* duplicate and no empty entry, and logged_text_set is the set of its
\* entries.
C10_AccumulatorInvariant ==
    text_lock = NoThread =>
        /\ \A i, j \in DOMAIN logged_text : logged_text[i] = logged_text[j] => i = j
        /\ \A i \in DOMAIN logged_text : logged_text[i] # <<>>
        /\ logged_text_set = Range(logged_text)

\* C10 witness: a query on a pool worker has taken the logged text and
\* cleared the buffer, and on_copy has logged two snippets since.
C10_Witness ==
    /\ text_lock = NoThread
    /\ Len(logged_text) = 2
    /\ apc[HK] = "idle"
    /\ \E w \in Workers : loc[w].text # NoneText

\* C11: process_api_query issues exactly one API call, with the combined
\* prompt when it has text and image, the text-only prompt with only text,
\* the image-only prompt with only an image; with neither it makes no call,
\* enqueues 'No content provided!' and returns.
C11_QueryDispatch ==
    /\ [](\A t \in Threads :
            apc[t] \in CallApiPcs /\ loc[t].ret = "paq" =>
              /\ loc[t].text # NoneText \/ loc[t].image # NoImage
              /\ loc[t].prompt.text = loc[t].text
              /\ loc[t].prompt.image = loc[t].image
              /\ loc[t].text # NoneText /\ loc[t].image # NoImage
                    => loc[t].prompt.kind = "PROMPT_TEXT_IMAGE"
              /\ loc[t].text # NoneText /\ loc[t].image = NoImage
                    => loc[t].prompt.kind = "PROMPT_TEXT_ONLY"
              /\ loc[t].text = NoneText /\ loc[t].image # NoImage
                    => loc[t].prompt.kind = "PROMPT_IMAGE_ONLY"
              /\ loc[t].calls <= 1)
    /\ [][\A w \in Workers :
            /\ apc[w] = "paq" /\ apc'[w] # "paq"
                 => IF loc[w].text = NoneText /\ loc[w].image = NoImage
                      THEN /\ apc'[w] = "idle"
                           /\ loc[w].calls = 0
                           /\ msg_queue' = Append(msg_queue, "No content provided!")
                      ELSE /\ apc'[w] = "call_api"
                           /\ msg_queue' = msg_queue
            /\ apc[w] \in CallApiPcs /\ loc[w].ret = "paq" /\ apc'[w] \notin CallApiPcs
                 => loc[w].calls = 1]_vars

\* C11 witness: the request of a query with text and image has been sent.
C11_Witness ==
    \E w \in Workers :
        /\ apc[w] \in {"api_stream", "fut_wait"}
        /\ loc[w].ret = "paq"
        /\ loc[w].prompt.kind = "PROMPT_TEXT_IMAGE"
        /\ loc[w].calls = 1

\* the positions of a pool worker inside a Ctrl+Alt+V task
QueryPcs == {"pcq_text", "pcq_text_body", "pcq_img", "pcq_img_body", "paq"}

InQuery(w) == apc[w] \in QueryPcs \/ (apc[w] \in CallApiPcs /\ loc[w].ret = "paq")

\* C12: every Ctrl+Alt+V task ends, and it ends having enqueued exactly one
\* message for the overlay (the answer, an error or timeout text, or
\* 'No content provided!'), whatever the API does.  A task enqueues only in
\* the step that ends it.
C12_OutcomeSurfaced ==
    /\ [][\A w \in Workers :
            InQuery(w) /\ ~InQuery(w)'
                => Len(msg_queue') = Len(msg_queue) + 1]_vars
    /\ \A w \in Workers : InQuery(w) ~> ~InQuery(w)

\* C13: every message passed to show_message is eventually displayed in its
\* own overlay window (the queue is emptied, and every removal from the queue
\* opens a window showing the removed message), and every overlay window is
\* eventually destroyed (windows only ever go away oldest first, by their own
\* timer).
C13_OverlayLifecycle ==
    /\ [][/\ msg_queue' # msg_queue /\ Len(msg_queue') <= Len(msg_queue)
             => /\ msg_queue # <<>>
                /\ msg_queue' = Tail(msg_queue)
                /\ overlays' = Append(overlays, Head(msg_queue))
          /\ overlays' # overlays /\ Len(overlays') <= Len(overlays)
             => overlays # <<>> /\ overlays' = Tail(overlays)]_vars
    /\ \A n \in 1..MaxMessages : (Len(msg_queue) >= n) ~> (Len(msg_queue) < n)
    /\ \A n \in 1..MaxMessages : (Len(overlays) >= n) ~> (Len(overlays) < n)

\* C13 witness: the polling loop had gone back to mainloop and was re-armed,
\* one message is on screen and the next one is waiting in the queue.
C13_Witness ==
    /\ mpc = "mainloop"
    /\ Len(overlays) = 1
    /\ msg_queue # <<>>
    /\ ops = MaxMessages

\* C14: a query that takes an image (process_current_query,
\* process_combined_query) takes the most recently captured one of the
\* buffer, removes exactly that one, and leaves the older ones as they were,
\* in their order.  Images are numbered in the order they are captured.
C14_MostRecentImage ==
    [][\A t \in Threads :
         /\ apc[t] \in {"pcq_img_body", "pcb_img_body"}
         /\ apc'[t] # apc[t]
         /\ captured_images # <<>>
         => LET n == Len(captured_images) IN
              /\ \A i \in 1..n : captured_images[i] <= captured_images[n]
              /\ loc'[t].image = captured_images[n]
              /\ Len(captured_images') = n - 1
              /\ \A i \in 1..(n - 1) : captured_images'[i] = captured_images[i]]_vars

\* C14 witness: a query holding text took the second of two captured images
\* and the first one is still in the buffer.
C14_Witness ==
    /\ captured_images = <<1>>
    /\ \E t \in Threads : loc[t].image = 2 /\ loc[t].text # NoneText

\* thread t leaves _call_api in this step with the message m enqueued
CallApiFailsWith(t, m) ==
    /\ apc[t] \in CallApiPcs
    /\ apc'[t] \notin CallApiPcs
    /\ msg_queue' = Append(msg_queue, m)

\* C15: when an API call fails with an exception, the request has been sent
\* at least twice (retried at least once) before the error message is
\* enqueued.
C15_RetryBeforeError ==
    [][\A t \in Threads :
         CallApiFailsWith(t, "API call error") => loc[t].calls >= 2]_vars

\* C15 amended: when an API call fails with an exception, the request is not
\* retried: the error message is enqueued after the single attempt.
C15_ErrorAfterSingleAttempt ==
    [][\A t \in Threads :
         CallApiFailsWith(t, "API call error") => loc[t].calls = 1]_vars

\* C15 witness: a Ctrl+Alt+V query has failed with an exception and its error
\* message is in the queue.
C15_Witness ==
    /\ \E i \in DOMAIN msg_queue : msg_queue[i] = "API call error"
    /\ \A t \in Threads : apc[t] = "idle"

\* what a failing _call_api does, adv being how far it may have moved
\* api_index: no step of the call changes the text or image buffers or
\* enqueues a message before the call returns; the call returns to its
\* caller, which ends normally, with at most one message enqueued; a future
\* that raised or timed out gives the error or the timeout text; and a call
\* that ends with the error or timeout text has advanced api_index adv times.
FailureContained(adv) ==
    \A t \in Threads :
        /\ apc[t] \in CallApiPcs /\ apc'[t] # apc[t]
             => UNCHANGED <<logged_text, logged_text_set, captured_images>>
        /\ apc[t] \in CallApiPcs /\ apc'[t] \in CallApiPcs /\ apc'[t] # apc[t]
             => msg_queue' = msg_queue
        /\ apc[t] \in CallApiPcs /\ apc'[t] \notin CallApiPcs
             => /\ apc'[t] = "idle"
                /\ api_index' = api_index
                /\ msg_queue' = msg_queue \/ \E m \in
                       {"answer", "API call error", "API call timed out!"} :
                           msg_queue' = Append(msg_queue, m)
        /\ apc[t] = "fut_wait" /\ apc'[t] # apc[t] /\ fut[t] = "exc"
             => msg_queue' = Append(msg_queue, "API call error")
        /\ apc[t] = "fut_wait" /\ apc'[t] # apc[t] /\ fut[t] = "pending"
             => msg_queue' = Append(msg_queue, "API call timed out!")
        /\ (\/ CallApiFailsWith(t, "API call error")
            \/ CallApiFailsWith(t, "API call timed out!"))
             => loc[t].adv = adv

\* C16: an exception of the API client (in LMS_bypass also a timeout) does
\* not leave _call_api: the call returns None, exactly one error message is
\* enqueued, and the call has left api_index, logged_text, logged_text_set
\* and captured_images as they were when it started.
C16_FailureLeavesAllState == [][FailureContained(0)]_vars

\* C16 amended: the same, except that in part_001 the failing call has moved
\* api_index on by the one position of its _get_next_client, which is not
\* undone (LMS_bypass has no api_index to move).
C16_FailureContained ==
    [][FailureContained(IF build = "part_001" THEN 1 ELSE 0)]_vars

\* C16 witness: in part_001 the first query has failed with an exception:
\* the error is queued, api_index has moved on and the drained text is gone.
C16_Witness ==
    /\ build = "part_001"
    /\ msg_queue = <<"API call error">>
    /\ api_index = 1
    /\ logged_text = <<>>
    /\ \A t \in Threads : apc[t] = "idle"
    /\ workq = <<>>

--------------------------------------------------------------------------
(***************************************************************************)
(* Further properties of the watchdog                                      *)
(***************************************************************************)
\* thread t executes self.process.terminate() / self.process.kill() in this
\* step
TerminateStep(t) == wpc[t] \in {"r_term", "s_term"} /\ wpc'[t] # wpc[t]

KillStep(t) == wpc[t] \in {"r_kill", "s_kill"} /\ wpc'[t] # wpc[t]

\* C17: kill() reaches a child only after terminate() was issued on that same
\* child (and the wait on it timed out), and neither call signals a child
\* that has already exited.  Popen.terminate() and Popen.kill() poll the
\* child themselves and send nothing to one that has exited.
C17_GracefulThenForced ==
    [][\A t \in WThreads :
         /\ KillStep(t) /\ process \in alive => process \in termSent
         /\ TerminateStep(t) \/ KillStep(t)
              => /\ (termSent' \ termSent) \subseteq alive
                 /\ (alive \ alive') \subseteq {process}]_vars

\* stop_watchdog, on some thread, has gone past its poll of the child: it is
\* about to call terminate() on it, has called it, or found nothing to
\* terminate
StopPastPoll ==
    \/ stopReturned
    \/ \E t \in WThreads : wpc[t] \in {"s_term", "s_wait", "s_kill", "s_unhook", "s_ret"}

\* C18: the monitor loop never takes its 'Process exited unexpectedly.
\* Restarting...' branch for an exit caused by stop_watchdog: whenever the
\* branch is taken, no stop_watchdog has yet got as far as calling
\* terminate() or kill() on a child.
C18_StoppedChildNotRestarted ==
    [][wpc["main"] = "chk" /\ wpc'["main"] = "m_popen" => ~StopPastPoll]_vars

\* C18 witness: stop_watchdog has called terminate() on the child and waits
\* for it; the monitor loop has polled the exit of that child and is about to
\* re-check self.running.
C18_Witness ==
    /\ wpc["main"] = "chk"
    /\ wpc["kb"] = "s_wait"
    /\ process # 0
    /\ process \notin alive

\* C19: once stop_watchdog has set self.running to False, Watchdog.run
\* eventually leaves the monitor loop and returns, and when it has returned
\* all hotkeys have been unhooked.
C19_ShutdownTerminates ==
    /\ [](wpc["main"] = "exit" => hotkeys = NoHotkeys)
    /\ ~running ~> wpc["main"] = "exit"

--------------------------------------------------------------------------
(***************************************************************************)
(* Further properties of App                                               *)
(***************************************************************************)
\* the images some thread or queued task holds
HeldImages == {loc[t].image : t \in Threads} \ {NoImage}

\* C20: with Ctrl+Alt+V tasks running concurrently with on_copy and
\* capture_region, no input is consumed twice.  An image is in the buffer or
\* with one query, never both and never with two; the buffers change only by
\* on_copy and capture_region appending a new entry at the end, or by a query
\* taking from them; a query that takes the text takes all of it and leaves
\* the buffer empty; a query that takes an image removes that image.
C20_NoInputConsumedTwice ==
    /\ [](/\ \A i, j \in DOMAIN captured_images :
                captured_images[i] = captured_images[j] => i = j
          /\ \A t \in Threads : loc[t].image \notin Range(captured_images)
          /\ \A t, u \in Threads :
                loc[t].image # NoImage /\ loc[t].image = loc[u].image => t = u)
    /\ [][/\ \A w \in Workers :
               apc[w] = "pcq_text_body" /\ apc'[w] # apc[w]
                  => /\ loc'[w].text = Join(logged_text)
                     /\ logged_text' = <<>>
                     /\ logged_text_set' = {}
          /\ logged_text' # logged_text
               => \/ /\ apc[HK] = "oc_body"
                     /\ Len(logged_text') = Len(logged_text) + 1
                     /\ SubSeq(logged_text', 1, Len(logged_text)) = logged_text
                  \/ \E w \in Workers : apc[w] = "pcq_text_body" /\ apc'[w] # apc[w]
          /\ captured_images' # captured_images
               => \/ /\ apc[HK] = "cap_body"
                     /\ Len(captured_images') = Len(captured_images) + 1
                     /\ SubSeq(captured_images', 1, Len(captured_images))
                           = captured_images
                     /\ captured_images'[Len(captured_images')] \notin HeldImages
                  \/ \E w \in Workers :
                        /\ apc[w] = "pcq_img_body" /\ apc'[w] # apc[w]
                        /\ loc'[w].image \in Range(captured_images)
                        /\ Range(captured_images') =
                              Range(captured_images) \ {loc'[w].image}
         ]_vars

\* C20 witness: of two Ctrl+Alt+V tasks running at once, one holds the text
\* and the image and the other found both buffers empty.
C20_Witness ==
    \E w1, w2 \in Workers :
        /\ w1 # w2
        /\ loc[w1].text # NoneText /\ loc[w1].image # NoImage
        /\ apc[w2] = "paq" /\ loc[w2].text = NoneText /\ loc[w2].image = NoImage

\* process_current_query on worker w has taken its text and its image and
\* has called process_api_query
Dispatched(w) == apc[w] = "paq" \/ (apc[w] \in CallApiPcs /\ loc[w].ret = "paq")

\* C21: of two process_current_query tasks that both started with text logged
\* and an image captured, never one calls process_api_query with the text and
\* no image while the other calls it with an image and no text.
C21_TextImagePaired ==
    \A w, u \in Workers :
        /\ w # u
        /\ loc[w].both /\ loc[u].both
        /\ apc[w] = "paq" /\ apc[u] = "paq"
        => ~ /\ loc[w].text # NoneText /\ loc[w].image = NoImage
             /\ loc[u].text = NoneText /\ loc[u].image # NoImage

\* the messages of a query that returns early for lack of input
NoInputMessages ==
    {"No text content available!", "No images available for processing!",
     "No text content available for combined query!",
     "No captured images available for combined query!"}

\* C22: a query method that returns early with a 'No ... available' message
\* has changed nothing: the returning step leaves logged_text,
\* logged_text_set and captured_images alone, and the call holds no text and
\* no image it took out of them earlier.
C22_AbortChangesNothing ==
    [][\A m \in NoInputMessages :
         msg_queue' = Append(msg_queue, m)
            => /\ UNCHANGED <<logged_text, logged_text_set, captured_images>>
               /\ loc[HK].text = NoneText
               /\ loc[HK].image = NoImage]_vars

\* the position in " ".join(l) just before snippet i
RECURSIVE Offset(_, _)
Offset(l, i) == IF i = 1 THEN 0 ELSE Offset(l, i - 1) + Len(l[i - 1]) + 1

\* s is the snippets of l, in order, with one space between neighbours
SpaceJoined(l, s) ==
    /\ l # <<>>
    /\ Len(s) = Offset(l, Len(l)) + Len(l[Len(l)])
    /\ \A i \in DOMAIN l : SubSeq(s, Offset(l, i) + 1, Offset(l, i) + Len(l[i])) = l[i]
    /\ \A i \in 2..Len(l) : s[Offset(l, i)] = " "

\* a take of the logged text yields text: the single-space join of
\* logged_text, with logged_text and logged_text_set left empty
Taken(text) ==
    /\ SpaceJoined(logged_text, text)
    /\ logged_text' = <<>>
    /\ logged_text_set' = {}

\* C23: logged_text holds the distinct stripped non-empty clipboard contents
\* logged since the previous drain, in the order each was first logged:
\* on_copy appends a content not yet in it at the end and leaves it alone
\* otherwise, and nothing but a take changes it besides.  The text that
\* process_current_query, process_text_only_query and process_combined_query
\* take from a non-empty logged_text is its single-space join, and the take
\* leaves logged_text and logged_text_set empty.
C23_TextSentInQuery ==
    /\ [](\A i, j \in DOMAIN logged_text :
              logged_text[i] = logged_text[j] => i = j)
    /\ [][/\ apc[HK] = "idle" /\ apc'[HK] = "oc_acquire"
               => \E raw \in ClipboardContents :
                     /\ loc'[HK].text # <<>>
                     /\ loc'[HK].text = Strip(raw)
                     /\ Head(loc'[HK].text) # " "
                     /\ loc'[HK].text[Len(loc'[HK].text)] # " "
          /\ apc[HK] = "oc_body" /\ apc'[HK] # apc[HK]
               => /\ logged_text' =
                        IF loc[HK].text \in Range(logged_text)
                          THEN logged_text
                          ELSE Append(logged_text, loc[HK].text)
                  /\ logged_text_set' = Range(logged_text')
          /\ \A w \in Workers :
               apc[w] = "pcq_text_body" /\ apc'[w] # apc[w] /\ logged_text # <<>>
                  => Taken(loc'[w].text)
          /\ apc[HK] = "ptq_body" /\ apc'[HK] # apc[HK] /\ logged_text # <<>>
               => workq' # <<>> /\ Taken(workq'[Len(workq')].text)
          /\ apc[HK] = "pcb_text_body" /\ apc'[HK] # apc[HK] /\ logged_text # <<>>
               => Taken(loc'[HK].text)
          /\ logged_text' # logged_text
               => \/ apc[HK] \in {"oc_body", "ptq_body", "pcb_text_body"}
                  \/ \E w \in Workers : apc[w] = "pcq_text_body" /\ apc'[w] # apc[w]
         ]_vars

\* C23 witness: a query was dispatched with two snippets joined, and the
\* first of them has been logged again for the next query.
C23_Witness ==
    /\ \E w \in Workers : Dispatched(w) /\ loc[w].text = <<"a", " ", "b">>
    /\ logged_text = << <<"a">> >>
    /\ logged_text_set = { <<"a">> }

\* C24: while the overlay of capture_region is up, a button release closes
\* it: the release handler's branch that destroys the overlay and ends
\* root.mainloop() is the one a release takes, never the branch that leaves
\* the overlay up, whether or not a press came before; the release then
\* appends exactly one image (the grab succeeded) or leaves captured_images
\* unchanged (the grab failed).
C24_RegionSelectionCloses ==
    /\ [](apc[HK] = "cap_loop"
            => ENABLED capture_on_release /\ ~ENABLED capture_on_release_unpressed)
    /\ [][/\ apc[HK] = "cap_loop" /\ apc'[HK] = "idle"
               => UNCHANGED captured_images
          /\ apc[HK] = "cap_body" /\ apc'[HK] # apc[HK]
               => /\ Len(captured_images') = Len(captured_images) + 1
                  /\ SubSeq(captured_images', 1, Len(captured_images))
                        = captured_images
         ]_vars

==========================================================================
